---- MODULE Spec2Model ----
(***************************************************************************)
(* A model of mediainfo (src/src/main.rs): the metadata cache with         *)
(* size/mtime invalidation, probe acquisition (process_file) inside main's *)
(* per-file loop, and the typed filter/sort layer over the display rows.   *)
(*                                                                         *)
(* Spec       the cache and acquisition state machine, interleaved with    *)
(*            external modifications of the probed files.                  *)
(* SpecQuery  the row filter (should_include_row) and the sort of main,    *)
(*            over tables of display rows and command-line arguments.      *)
(* SpecFormat format_probe_output with truncate_middle, over prober        *)
(*            records, file names and --filename-length values.            *)
(***************************************************************************)
EXTENDS Integers, Sequences, FiniteSets, TLC

\* ------------------------------------------------------------------ bounds
\* File sizes range over 1..MaxSize bytes.
MaxSize == 2
\* Modification times range over 0..MaxTick clock ticks.
MaxTick == 2
\* Length of the longest list of discovered files.
MaxFiles == 2
\* Number of external modifications of the files during one run.
MaxMods == 1

\* ------------------------------------------------------------- file system
\* The canonical paths (file identities) of the run.
Files == {"a", "b"}

\* A path that does not resolve: canonicalize() and fs::metadata() fail.
Gone == [exists |-> FALSE, size |-> 0, mtime |-> 0]

FileStates ==
    {Gone} \cup [exists : {TRUE}, size : 1..MaxSize, mtime : 0..MaxTick]

\* The state every file that exists starts in.
BaseState == [exists |-> TRUE, size |-> 1, mtime |-> 0]

\* FFProbeOutput.  The prober's report is a function of the file as it was
\* when probed, so a record is identified by that version of the file.
NoProbe == [size |-> 0, mtime |-> 0]

FFProbeOutput(st) == [size |-> st.size, mtime |-> st.mtime]

\* Result<FFProbeOutput> and Result<Option<FFProbeOutput>>.
Err == [tag |-> "Err", val |-> NoProbe]

Ok(p) == [tag |-> "Ok", val |-> p]

OkNone == [tag |-> "None", val |-> NoProbe]

OkSome(p) == [tag |-> "Some", val |-> p]

\* ---------------------------------------------------------------- the cache
NoSig == <<0, 0>>

\* CacheEntry, and the absence of one in Cache.entries.
NoEntry == [present |-> FALSE, signature |-> NoSig, probe_data |-> NoProbe]

CacheEntry(sig, p) == [present |-> TRUE, signature |-> sig, probe_data |-> p]

\* Cache { entries: HashMap::new() }
EmptyEntries == [f \in Files |-> NoEntry]

\* static CACHE: Mutex<Option<Cache>> holding None.
CacheNone == [loaded |-> FALSE, entries |-> EmptyEntries]

\* Clock ticks that Duration::as_secs folds into one whole second: SystemTime
\* is finer than the seconds the signature keeps.
TicksPerSec == 2

\* format!("{}-{}", size, modified.as_secs()): the pair (size, whole seconds).
SignatureOf(st) == <<st.size, st.mtime \div TicksPerSec>>

\* An entry as a run of the program writes it for a file it probed in state st.
EntryFor(st) == CacheEntry(SignatureOf(st), FFProbeOutput(st))

\* What cache.json may hold when the process starts: it is absent, it does not
\* parse, it cannot be read, or it is the mapping an earlier run left.
InitialDisks ==
    {[kind |-> k, entries |-> EmptyEntries] :
        k \in {"absent", "corrupt", "unreadable"}}
    \cup {[kind |-> "valid",
           entries |-> [f \in Files |-> IF f \in S THEN EntryFor(BaseState)
                                        ELSE NoEntry]] : S \in SUBSET Files}

RECURSIVE SeqsUpTo(_, _)
\* The sequences over S of length at most n.
SeqsUpTo(S, n) ==
    IF n = 0 THEN {<<>>}
    ELSE LET shorter == SeqsUpTo(S, n - 1)
         IN shorter \cup {Append(s, x) : s \in shorter, x \in S}

VARIABLES
    fs,               \* the probed files: Files -> FileStates
    mods,             \* external modifications so far
    disk,             \* ~/.mediainfo/cache/cache.json
    CACHE,            \* the process-wide Option<Cache>
    cached,           \* args.cached
    media_files,      \* collect_media_files(args.paths)
    idx,              \* position of main's for loop in media_files
    pc,               \* position of main
    probe,            \* process_file: the parsed prober output, NoProbe before
    ret,              \* process_file's return value
    processed_files,  \* main: Vec<(PathBuf, FFProbeOutput)>
    invoked,          \* history: this process_file call ran ffprobe
    lk,               \* history: what this call's cache lookup saw
    last,             \* history: per file, the record its last call returned
    outcomes,         \* history: the return value of each process_file call
    lastLoad,         \* history: the last read of cache.json
    table_in,         \* main: the FieldRows of the files, in processing order
    args_filter,      \* args.filter
    args_sort,        \* args.sort
    args_direction,   \* args.direction
    rows,             \* main: the rows of the table, each with its source row
    qpc,              \* position of main in building the table
    file_name,        \* format_probe_output: file.file_name(), as a string
    filename_length,  \* args.filename_length
    overflow_checks,  \* the build's overflow-checks setting
    probe_in,         \* format_probe_output: the FFProbeOutput it is given
    row_out,          \* format_probe_output: the fields it returned
    fpc               \* position of the format_probe_output call

cacheVars ==
    <<fs, mods, disk, CACHE, cached, media_files, idx, pc, probe, ret,
      processed_files, invoked, lk, last, outcomes, lastLoad>>

queryVars ==
    <<table_in, args_filter, args_sort, args_direction, rows, qpc>>

formatVars ==
    <<file_name, filename_length, overflow_checks, probe_in, row_out, fpc>>

vars == <<cacheVars, queryVars, formatVars>>

\* ------------------------------------------------------- identity, signature
\* get_file_signature: fails when the metadata cannot be read.
get_file_signature(f) ==
    IF fs[f].exists THEN [ok |-> TRUE, sig |-> SignatureOf(fs[f])]
    ELSE [ok |-> FALSE, sig |-> NoSig]

\* serde_json::from_str(&content).unwrap_or_else(|_| Cache { entries: empty })
from_str_or_empty(d) ==
    IF d.kind = "valid" THEN d.entries ELSE EmptyEntries

\* load_cache: Err when the cache file cannot be located or read.
load_cache ==
    IF disk.kind = "unreadable" THEN [ok |-> FALSE, entries |-> EmptyEntries]
    ELSE IF disk.kind = "absent" THEN [ok |-> TRUE, entries |-> EmptyEntries]
    ELSE [ok |-> TRUE, entries |-> from_str_or_empty(disk)]

\* The same load with the parse error propagated instead of recovered.
load_in_lookup_strict ==
    IF disk.kind \in {"unreadable", "corrupt"}
    THEN [ok |-> FALSE, entries |-> EmptyEntries]
    ELSE IF disk.kind = "absent" THEN [ok |-> TRUE, entries |-> EmptyEntries]
    ELSE [ok |-> TRUE, entries |-> from_str_or_empty(disk)]

\* The load that get_cached_probe does itself when CACHE holds None.
load_in_lookup ==
    IF disk.kind = "unreadable" THEN [ok |-> FALSE, entries |-> EmptyEntries]
    ELSE IF disk.kind = "absent" THEN [ok |-> TRUE, entries |-> EmptyEntries]
    ELSE [ok |-> TRUE, entries |-> from_str_or_empty(disk)]

\* get_cached_probe with the entry's signature compared to no signature: no
\* lookup ever hits.
get_cached_probe_never(f) ==
    IF ~fs[f].exists THEN [cache |-> CACHE, res |-> Err]
    ELSE LET ld == load_in_lookup
             c == IF CACHE.loaded THEN CACHE
                  ELSE [loaded |-> ld.ok, entries |-> ld.entries]
         IN IF ~c.loaded THEN [cache |-> CACHE, res |-> Err]
            ELSE LET entry == c.entries[f]
                 IN IF entry.present /\ NoSig = entry.signature
                    THEN [cache |-> c, res |-> OkSome(entry.probe_data)]
                    ELSE [cache |-> c, res |-> OkNone]

\* get_cached_probe without the signature comparison: any entry is a hit.
get_cached_probe_unchecked(f) ==
    IF ~fs[f].exists THEN [cache |-> CACHE, res |-> Err]
    ELSE LET ld == load_in_lookup
             c == IF CACHE.loaded THEN CACHE
                  ELSE [loaded |-> ld.ok, entries |-> ld.entries]
         IN IF ~c.loaded THEN [cache |-> CACHE, res |-> Err]
            ELSE LET entry == c.entries[f]
                 IN IF entry.present
                    THEN [cache |-> c, res |-> OkSome(entry.probe_data)]
                    ELSE [cache |-> c, res |-> OkNone]

\* get_cached_probe reading cache.json on every call, CACHE set or not.
get_cached_probe_reloading(f) ==
    IF ~fs[f].exists THEN [cache |-> CACHE, res |-> Err]
    ELSE LET ld == load_in_lookup
             c == [loaded |-> ld.ok, entries |-> ld.entries]
         IN IF ~c.loaded THEN [cache |-> CACHE, res |-> Err]
            ELSE LET entry == c.entries[f]
                 IN IF entry.present
                       /\ get_file_signature(f).sig = entry.signature
                    THEN [cache |-> c, res |-> OkSome(entry.probe_data)]
                    ELSE [cache |-> c, res |-> OkNone]

\* get_cached_probe(file): the cache afterwards and the result.
get_cached_probe(f) ==
    IF ~fs[f].exists THEN [cache |-> CACHE, res |-> Err]
    ELSE LET ld == load_in_lookup
             c == IF CACHE.loaded THEN CACHE
                  ELSE [loaded |-> ld.ok, entries |-> ld.entries]
         IN IF ~c.loaded THEN [cache |-> CACHE, res |-> Err]
            ELSE LET entry == c.entries[f]
                 IN IF entry.present
                       /\ get_file_signature(f).sig = entry.signature
                    THEN [cache |-> c, res |-> OkSome(entry.probe_data)]
                    ELSE [cache |-> c, res |-> OkNone]

\* save_cache(cache): the file afterwards.  written: fs::write succeeded;
\* torn: a failed write left the file truncated.
save_cache(entries, written, torn) ==
    IF written THEN [kind |-> "valid", entries |-> entries]
    ELSE IF torn THEN [kind |-> "corrupt", entries |-> EmptyEntries]
    ELSE disk

\* save_to_cache persisting the mapping before it inserts the entry.
save_to_cache_persist_first(f, p, written, torn) ==
    IF ~fs[f].exists THEN [cache |-> CACHE, disk |-> disk, ok |-> FALSE]
    ELSE LET ld == load_cache
             c == IF CACHE.loaded THEN CACHE
                  ELSE [loaded |-> ld.ok, entries |-> ld.entries]
         IN IF ~c.loaded THEN [cache |-> CACHE, disk |-> disk, ok |-> FALSE]
            ELSE LET e == CacheEntry(get_file_signature(f).sig, p)
                     c2 == [c EXCEPT !.entries[f] = e]
                 IN [cache |-> c2,
                     disk |-> save_cache(c.entries, written, torn),
                     ok |-> written]

\* save_to_cache(file, probe_data): the cache and the file afterwards, and
\* whether it returned Ok.
save_to_cache(f, p, written, torn) ==
    IF ~fs[f].exists THEN [cache |-> CACHE, disk |-> disk, ok |-> FALSE]
    ELSE LET ld == load_cache
             c == IF CACHE.loaded THEN CACHE
                  ELSE [loaded |-> ld.ok, entries |-> ld.entries]
         IN IF ~c.loaded THEN [cache |-> CACHE, disk |-> disk, ok |-> FALSE]
            ELSE LET e == CacheEntry(get_file_signature(f).sig, p)
                     c2 == [c EXCEPT !.entries[f] = e]
                 IN [cache |-> c2,
                     disk |-> save_cache(c2.entries, written, torn),
                     ok |-> written]

\* ------------------------------------------------------------------ history
NoLoad ==
    [path |-> "none", kind |-> "none", ok |-> FALSE, empty |-> FALSE,
     res |-> "none"]

\* The read of cache.json that a call on path `path` makes when CACHE holds
\* None: what the file was, whether the load returned Ok, whether the cache it
\* left is empty, and how the enclosing call ended.
LoadEvent(path, c, res) ==
    [path |-> path, kind |-> disk.kind, ok |-> c.loaded,
     empty |-> (c.entries = EmptyEntries), res |-> res]

NoLast == [rec |-> NoProbe, st |-> Gone]

NoLookup ==
    [hit |-> FALSE, match |-> FALSE, rel |-> "first", expect |-> NoProbe]

\* An entry exists for the identity in the cache c and its stored signature
\* equals the file's current signature.
Matches(c, f) ==
    /\ c.loaded
    /\ c.entries[f].present
    /\ fs[f].exists
    /\ c.entries[f].signature = SignatureOf(fs[f])

\* How the file stands, when a call looks it up, against the state in which
\* the previous call on it that returned a record read its signature.
Relation(f) ==
    IF last[f].rec = NoProbe THEN "first"
    ELSE IF fs[f] = last[f].st THEN "same"
    ELSE IF fs[f].exists /\ SignatureOf(fs[f]) = SignatureOf(last[f].st)
    THEN "subsecond"
    ELSE "changed"

\* --------------------------------------------------------------------- Init
Init ==
    /\ fs \in [Files -> {Gone, BaseState}]
    /\ mods = 0
    /\ disk \in InitialDisks
    /\ CACHE = CacheNone
    /\ cached \in BOOLEAN
    /\ media_files \in IF cached THEN {<<>>} ELSE SeqsUpTo(Files, MaxFiles)
    /\ idx = 1
    /\ pc = "start"
    /\ probe = NoProbe
    /\ ret = Err
    /\ processed_files = <<>>
    /\ invoked = FALSE
    /\ lk = NoLookup
    /\ last = [f \in Files |-> NoLast]
    /\ outcomes = <<>>
    /\ lastLoad = NoLoad
    /\ table_in = <<>>
    /\ args_filter = <<>>
    /\ args_sort = "bitrate"
    /\ args_direction = "desc"
    /\ rows = <<>>
    /\ qpc = "off"
    /\ file_name = <<>>
    /\ filename_length = 0
    /\ overflow_checks = FALSE
    /\ probe_in = <<>>
    /\ row_out = <<>>
    /\ fpc = "off"

\* The file main's loop is at.
cur == media_files[idx]

\* An external writer changes, creates or removes a file.  A write shows in the
\* run only through the next step that reads the written file, so the model
\* places it right before a step that reads the current file.
Modify ==
    /\ pc \in {"check", "lookup", "probe", "store"}
    /\ mods < MaxMods
    /\ \E st \in FileStates \ {fs[cur]} : fs' = [fs EXCEPT ![cur] = st]
    /\ mods' = mods + 1
    /\ UNCHANGED <<disk, CACHE, cached, media_files, idx, pc, probe, ret,
                   processed_files, invoked, lk, last, outcomes, lastLoad>>
    /\ UNCHANGED <<queryVars, formatVars>>

\* main without --cached: collect_media_files, then the loop or the early
\* return on an empty list.
Start ==
    /\ pc = "start"
    /\ ~cached
    /\ pc' = IF media_files = <<>> THEN "exit" ELSE "check"
    /\ UNCHANGED <<fs, mods, disk, CACHE, cached, media_files, idx, probe, ret,
                   processed_files, invoked, lk, last, outcomes, lastLoad>>
    /\ UNCHANGED <<queryVars, formatVars>>

\* main's loop body, first statement: is_cached = get_cached_probe(&file)...
Check ==
    /\ pc = "check"
    /\ LET r == get_cached_probe(cur)
       IN /\ CACHE' = r.cache
          /\ lastLoad' = IF fs[cur].exists /\ ~CACHE.loaded
                         THEN LoadEvent("lookup", r.cache, r.res.tag)
                         ELSE lastLoad
    /\ pc' = "lookup"
    /\ UNCHANGED <<fs, mods, disk, cached, media_files, idx, probe, ret,
                   processed_files, invoked, lk, last, outcomes>>
    /\ UNCHANGED <<queryVars, formatVars>>

\* process_file, first statement: a hit returns the cached record.
Lookup ==
    /\ pc = "lookup"
    /\ LET r == get_cached_probe(cur)
           hit == r.res.tag = "Some"
       IN /\ CACHE' = r.cache
          /\ lastLoad' = IF fs[cur].exists /\ ~CACHE.loaded
                         THEN LoadEvent("lookup", r.cache, r.res.tag)
                         ELSE lastLoad
          /\ lk' = [hit |-> hit, match |-> Matches(r.cache, cur),
                    rel |-> Relation(cur), expect |-> last[cur].rec]
          /\ ret' = IF hit THEN Ok(r.res.val) ELSE Err
          /\ pc' = IF hit THEN "ret" ELSE "probe"
          /\ last' = IF hit
                     THEN [last EXCEPT ![cur] = [rec |-> r.res.val,
                                                 st |-> fs[cur]]]
                     ELSE last
    /\ probe' = NoProbe
    /\ invoked' = FALSE
    /\ UNCHANGED <<fs, mods, disk, cached, media_files, idx, processed_files,
                   outcomes>>
    /\ UNCHANGED <<queryVars, formatVars>>

\* process_file: run ffprobe and parse its output.  The prober fails on a
\* missing file; on an existing one it may fail, or print what does not parse.
Probe ==
    /\ pc = "probe"
    /\ invoked' = TRUE
    /\ \E out \in {"ok", "failed", "unparseable"} :
           IF out = "ok" /\ fs[cur].exists
           THEN /\ probe' = FFProbeOutput(fs[cur])
                /\ pc' = "store"
                /\ UNCHANGED <<ret, last>>
           ELSE /\ ret' = Err
                /\ pc' = "ret"
                /\ last' = [last EXCEPT ![cur] = NoLast]
                /\ UNCHANGED probe
    /\ UNCHANGED <<fs, mods, disk, CACHE, cached, media_files, idx,
                   processed_files, lk, outcomes, lastLoad>>
    /\ UNCHANGED <<queryVars, formatVars>>

\* process_file: save_to_cache(file, &probe)?; Ok(probe)
Store ==
    /\ pc = "store"
    /\ \E written \in BOOLEAN, torn \in BOOLEAN :
           LET s == save_to_cache(cur, probe, written, torn)
           IN /\ CACHE' = s.cache
              /\ disk' = s.disk
              /\ ret' = IF s.ok THEN Ok(probe) ELSE Err
              /\ last' = [last EXCEPT ![cur] =
                              IF s.ok THEN [rec |-> probe, st |-> fs[cur]]
                              ELSE NoLast]
              /\ lastLoad' = IF fs[cur].exists /\ ~CACHE.loaded
                             THEN LoadEvent("store",
                                            [loaded |-> load_cache.ok,
                                             entries |-> load_cache.entries],
                                            IF s.ok THEN "Ok" ELSE "Err")
                             ELSE lastLoad
    /\ pc' = "ret"
    /\ UNCHANGED <<fs, mods, cached, media_files, idx, probe, processed_files,
                   invoked, lk, outcomes>>
    /\ UNCHANGED <<queryVars, formatVars>>

\* main's match on process_file's result: Ok pushes (file, probe), Err prints.
push_result(files, f, r) ==
    IF r.tag = "Ok" THEN Append(files, <<f, r.val>>) ELSE files

\* The loop with process_file's error propagated (process_file(..)?).
after_file_propagating(r, i) ==
    IF r.tag = "Err" THEN "fatal"
    ELSE IF i < Len(media_files) THEN "check" ELSE "table"

\* Where main goes after a file: on to the next one, or out of the loop.
after_file(r, i) ==
    IF i < Len(media_files) THEN "check" ELSE "table"

\* The body's locals go out of scope with the end of the iteration.
Collect ==
    /\ pc = "ret"
    /\ processed_files' = push_result(processed_files, cur, ret)
    /\ outcomes' = Append(outcomes, ret)
    /\ pc' = after_file(ret, idx)
    /\ idx' = idx + 1
    /\ probe' = NoProbe
    /\ ret' = Err
    /\ invoked' = FALSE
    /\ lk' = NoLookup
    /\ UNCHANGED <<fs, mods, disk, CACHE, cached, media_files, last, lastLoad>>
    /\ UNCHANGED <<queryVars, formatVars>>

RECURSIVE Listings(_)
\* The orders in which a HashMap's iterator may yield the entries of S.
Listings(S) ==
    IF S = {} THEN {<<>>}
    ELSE UNION {{<<f>> \o rest : rest \in Listings(S \ {f})} : f \in S}

\* main with --cached: get_cached_files()?, the early return on an empty list.
ListCached ==
    /\ pc = "start"
    /\ cached
    /\ LET ld == load_cache
           c == IF CACHE.loaded THEN CACHE
                ELSE [loaded |-> ld.ok, entries |-> ld.entries]
           present == {f \in Files : c.entries[f].present}
       IN /\ CACHE' = c
          /\ lastLoad' = IF ~CACHE.loaded
                         THEN LoadEvent("list", c,
                                        IF c.loaded THEN "Ok" ELSE "Err")
                         ELSE lastLoad
          /\ IF ~c.loaded
             THEN /\ pc' = "fatal"
                  /\ UNCHANGED processed_files
             ELSE \E order \in Listings(present) :
                      /\ processed_files' =
                             [i \in 1..Len(order) |->
                                 <<order[i], c.entries[order[i]].probe_data>>]
                      /\ pc' = IF order = <<>> THEN "exit" ELSE "table"
    /\ UNCHANGED <<fs, mods, disk, cached, media_files, idx, probe, ret,
                   invoked, lk, last, outcomes>>
    /\ UNCHANGED <<queryVars, formatVars>>

Next ==
    \/ Modify
    \/ Start
    \/ Check
    \/ Lookup
    \/ Probe
    \/ Store
    \/ Collect
    \/ ListCached

Spec == Init /\ [][Next]_vars

\* ------------------------------------------------------------------ strings
\* A string is the sequence of its characters.  The characters the model's
\* strings are written in, in code point order.
Chars ==
    <<" ", "%", "+", "-", ".", "/",
      "0", "1", "2", "3", "4", "5", "6", "7", "8", "9", ":", "<", "=", ">",
      "A", "B", "C", "D", "E", "F", "G", "H", "I", "J", "K", "L", "M", "N", "O", "P", "Q", "R", "S", "T", "U", "V", "W", "X", "Y", "Z", "_",
      "a", "b", "c", "d", "e", "f", "g", "h", "i", "j", "k", "l", "m", "n", "o", "p", "q", "r", "s", "t", "u", "v", "w", "x", "y", "z">>

CodePoint(c) == CHOOSE i \in 1..Len(Chars) : Chars[i] = c

UpperCase == <<"A", "B", "C", "D", "E", "F", "G", "H", "I", "J", "K", "L", "M",
      "N", "O", "P", "Q", "R", "S", "T", "U", "V", "W", "X", "Y", "Z">>

LowerCase == <<"a", "b", "c", "d", "e", "f", "g", "h", "i", "j", "k", "l", "m",
      "n", "o", "p", "q", "r", "s", "t", "u", "v", "w", "x", "y", "z">>

DigitChars == <<"0", "1", "2", "3", "4", "5", "6", "7", "8", "9">>

is_digit(c) == \E i \in 1..10 : DigitChars[i] = c

DigitValue(c) == (CHOOSE i \in 1..10 : DigitChars[i] = c) - 1

\* str::to_lowercase on the model's characters.
to_lowercase(s) ==
    [i \in 1..Len(s) |->
        IF \E k \in 1..26 : UpperCase[k] = s[i]
        THEN LowerCase[CHOOSE k \in 1..26 : UpperCase[k] = s[i]]
        ELSE s[i]]

\* str::contains(pattern)
contains(s, pat) ==
    \E i \in 0..(Len(s) - Len(pat)) :
        \A k \in 1..Len(pat) : s[i + k] = pat[k]

RECURSIVE split(_, _)
\* str::split(sep).collect(): the pieces between the separators, empty ones
\* included.
split(s, sep) ==
    IF \A i \in 1..Len(s) : s[i] # sep THEN <<s>>
    ELSE LET i == CHOOSE j \in 1..Len(s) :
                      s[j] = sep /\ \A k \in 1..(j - 1) : s[k] # sep
         IN <<SubSeq(s, 1, i - 1)>> \o split(SubSeq(s, i + 1, Len(s)), sep)

\* str::split_whitespace().collect(): the non-empty pieces between blanks.
split_whitespace(s) == SelectSeq(split(s, " "), LAMBDA t : t # <<>>)

RECURSIVE string_cmp(_, _)
\* String::cmp: lexicographic by code point; -1, 0, 1 for Less, Equal, Greater.
string_cmp(a, b) ==
    IF a = <<>> /\ b = <<>> THEN 0
    ELSE IF a = <<>> THEN -1
    ELSE IF b = <<>> THEN 1
    ELSE IF CodePoint(a[1]) < CodePoint(b[1]) THEN -1
    ELSE IF CodePoint(a[1]) > CodePoint(b[1]) THEN 1
    ELSE string_cmp(Tail(a), Tail(b))

\* ------------------------------------------------------------------ numbers
\* An f64 is kept as the integer number of its hundredths: every number the
\* model's strings write has at most two fractional digits.
RECURSIVE digits_value(_)
digits_value(s) ==
    IF s = <<>> THEN 0
    ELSE 10 * digits_value(SubSeq(s, 1, Len(s) - 1)) + DigitValue(s[Len(s)])

all_digits(s) == \A i \in 1..Len(s) : is_digit(s[i])

\* str::parse::<f64>() on strings of an optional sign, digits, and at most one
\* '.' followed by at most two digits; every other string of the model is one
\* that f64's grammar rejects.
parse_f64(s) ==
    LET signed == s # <<>> /\ s[1] \in {"+", "-"}
        body == IF signed THEN Tail(s) ELSE s
        dots == {i \in 1..Len(body) : body[i] = "."}
        dot == IF dots = {} THEN Len(body) + 1 ELSE CHOOSE i \in dots : TRUE
        int == SubSeq(body, 1, dot - 1)
        frac == SubSeq(body, dot + 1, Len(body))
        hundredths == IF frac = <<>> THEN 0
                      ELSE IF Len(frac) = 1 THEN 10 * DigitValue(frac[1])
                      ELSE 10 * DigitValue(frac[1]) + DigitValue(frac[2])
        magnitude == 100 * digits_value(int) + hundredths
    IN IF Cardinality(dots) > 1 \/ Len(frac) > 2
          \/ ~all_digits(int) \/ ~all_digits(frac)
          \/ (int = <<>> /\ frac = <<>>)
       THEN [ok |-> FALSE, val |-> 0]
       ELSE [ok |-> TRUE,
             val |-> IF signed /\ s[1] = "-" THEN -magnitude ELSE magnitude]

\* Result::unwrap_or(0.0), Option::unwrap_or(0.0)
unwrap_or_zero(r) == IF r.ok THEN r.val ELSE 0

\* f64::partial_cmp(..).unwrap_or(Equal), u64::cmp
number_cmp(x, y) == IF x < y THEN -1 ELSE IF x > y THEN 1 ELSE 0

\* parse_size: bytes, from "<value> <unit>"; `as u64` truncates and clamps.
parse_size(size_str) ==
    LET parts == split_whitespace(size_str)
        value == unwrap_or_zero(parse_f64(parts[1]))
        as_u64(h) == IF h < 0 THEN 0 ELSE h \div 100
    IN IF Len(parts) # 2 THEN 0
       ELSE IF parts[2] = <<"G", "B">> THEN as_u64(value * 1024 * 1024 * 1024)
       ELSE IF parts[2] = <<"M", "B">> THEN as_u64(value * 1024 * 1024)
       ELSE IF parts[2] = <<"K", "B">> THEN as_u64(value * 1024)
       ELSE IF parts[2] = <<"B">> THEN as_u64(value)
       ELSE 0

\* parse_bitrate: the leading token of "<value> Mbps" as a number.
parse_bitrate(bitrate_str) ==
    LET parts == split_whitespace(bitrate_str)
    IN IF parts = <<>> THEN [ok |-> FALSE, val |-> 0] ELSE parse_f64(parts[1])

\* parse_duration_to_secs: MM:SS or HH:MM:SS to seconds, anything else 0.
parse_duration_to_secs(duration) ==
    LET parts == split(duration, ":")
        num(i) == unwrap_or_zero(parse_f64(parts[i]))
    IN IF Len(parts) = 2 THEN num(1) * 60 + num(2)
       ELSE IF Len(parts) = 3 THEN num(1) * 3600 + num(2) * 60 + num(3)
       ELSE 0

RECURSIVE human_duration_from(_, _, _, _)
\* The loop of parse_human_duration from character i on, with total_seconds
\* and current_number as they stand.
human_duration_from(s, i, total, number) ==
    IF i > Len(s)
    THEN [ok |-> TRUE,
          val |-> IF number # <<>> /\ parse_f64(number).ok
                  THEN total + parse_f64(number).val ELSE total]
    ELSE LET c == s[i]
             n == parse_f64(number)
             peek(k) == IF k <= Len(s) THEN s[k] ELSE ""
         IN IF is_digit(c)
            THEN human_duration_from(s, i + 1, total, Append(number, c))
            ELSE IF ~n.ok THEN [ok |-> FALSE, val |-> 0]
            ELSE IF c = "h"
            THEN human_duration_from(s, i + 1, total + n.val * 3600, <<>>)
            ELSE IF c = "m"
            THEN IF peek(i + 1) = "i"
                 THEN IF peek(i + 2) = "n"
                      THEN human_duration_from(s, i + 3, total + n.val * 60,
                                               <<>>)
                      ELSE human_duration_from(s, i + 2, total, <<>>)
                 ELSE human_duration_from(s, i + 1, total + n.val * 60, <<>>)
            ELSE IF c = "s"
            THEN human_duration_from(s, i + 1, total + n.val, <<>>)
            ELSE [ok |-> FALSE, val |-> 0]

\* parse_human_duration: "1h30m", "90min", "45s", "120" to seconds.
parse_human_duration(duration_str) ==
    human_duration_from(duration_str, 1, 0, <<>>)

\* --------------------------------------------------------------- the filter
ColFilename == <<"f", "i", "l", "e", "n", "a", "m", "e">>

ColSize == <<"s", "i", "z", "e">>

ColDuration == <<"d", "u", "r", "a", "t", "i", "o", "n">>

ColFps == <<"f", "p", "s">>

ColBitrate == <<"b", "i", "t", "r", "a", "t", "e">>

\* should_include_row's closure on a filter of three parts: the column's field
\* reverse-parsed, against the threshold.  Fields are indexed from 0 in the
\* code and from 1 here.
typed_filter(fields, parts) ==
    LET column == parts[1]
        op == parts[2]
        value == parts[3]
        known == column \in {ColSize, ColDuration, ColFps, ColBitrate}
        field_value ==
            IF column = ColSize THEN 100 * parse_size(fields[2])
            ELSE IF column = ColDuration THEN parse_duration_to_secs(fields[3])
            ELSE IF column = ColFps THEN unwrap_or_zero(parse_f64(fields[4]))
            ELSE unwrap_or_zero(parse_bitrate(fields[5]))
        threshold ==
            IF column = ColDuration /\ parse_human_duration(value).ok
            THEN parse_human_duration(value).val
            ELSE unwrap_or_zero(parse_f64(value))
    IN IF ~known THEN TRUE
       ELSE IF op = <<">">> THEN field_value > threshold
       ELSE IF op = <<"<">> THEN field_value < threshold
       ELSE TRUE

\* The closure with a filter of the wrong shape failing closed.
filter_matches_closed(fields, filter) ==
    LET parts == split(filter, ":")
    IN IF Len(parts) # 2 THEN FALSE
       ELSE IF parts[1] = ColFilename
       THEN contains(to_lowercase(fields[1]), to_lowercase(parts[2]))
       ELSE IF Len(parts) # 3 THEN TRUE
       ELSE typed_filter(fields, parts)

\* should_include_row's closure: whether the row matches one filter.
filter_matches(fields, filter) ==
    LET parts == split(filter, ":")
    IN IF Len(parts) # 2 THEN TRUE
       ELSE IF parts[1] = ColFilename
       THEN contains(to_lowercase(fields[1]), to_lowercase(parts[2]))
       ELSE IF Len(parts) # 3 THEN TRUE
       ELSE typed_filter(fields, parts)

\* should_include_row(fields, filters)
should_include_row(fields, filters) ==
    IF filters = <<>> THEN TRUE
    ELSE \A i \in 1..Len(filters) : filter_matches(fields, filters[i])

\* ----------------------------------------------------------------- the sort
SortColumns ==
    <<"filename", "size", "duration", "fps", "bitrate", "resolution",
      "format", "profile", "depth", "audio">>

\* main's sort_index: the column's position, counted from 0; bitrate's when the
\* name is none of the ten.
sort_index_of(name) ==
    IF \E i \in 1..Len(SortColumns) : SortColumns[i] = name
    THEN (CHOOSE i \in 1..Len(SortColumns) : SortColumns[i] = name) - 1
    ELSE 4

\* The closure of rows.sort_by: -1, 0, 1 for Less, Equal, Greater.
compare_rows(a, b, sort_index, ascending) ==
    LET fa == a[sort_index + 1]
        fb == b[sort_index + 1]
        cmp ==
            IF sort_index = 1 THEN number_cmp(parse_size(fa), parse_size(fb))
            ELSE IF sort_index = 2
            THEN number_cmp(unwrap_or_zero(parse_f64(fa)),
                            unwrap_or_zero(parse_f64(fb)))
            ELSE IF sort_index = 3
            THEN number_cmp(unwrap_or_zero(parse_f64(fa)),
                            unwrap_or_zero(parse_f64(fb)))
            ELSE IF sort_index = 4
            THEN number_cmp(unwrap_or_zero(parse_bitrate(fa)),
                            unwrap_or_zero(parse_bitrate(fb)))
            ELSE string_cmp(fa, fb)
    IN IF ascending THEN cmp ELSE -cmp

RECURSIVE insert_row(_, _, _, _)
\* One step of the stable sort: x goes behind every row of the sorted v that
\* does not compare Greater than it.
insert_row(v, x, sort_index, ascending) ==
    IF v = <<>> THEN <<x>>
    ELSE LET n == Len(v)
         IN IF compare_rows(v[n].fields, x.fields, sort_index, ascending) > 0
            THEN Append(insert_row(SubSeq(v, 1, n - 1), x, sort_index,
                                   ascending), v[n])
            ELSE Append(v, x)

RECURSIVE stable_sort(_, _, _)
stable_sort(v, sort_index, ascending) ==
    IF v = <<>> THEN <<>>
    ELSE LET n == Len(v)
         IN insert_row(stable_sort(SubSeq(v, 1, n - 1), sort_index, ascending),
                       v[n], sort_index, ascending)

Reverse(v) == [i \in 1..Len(v) |-> v[Len(v) + 1 - i]]

\* The sort with descending done as the ascending order reversed.
rows_sort_by_reversing(v, sort_index, ascending) ==
    IF ascending THEN stable_sort(v, sort_index, TRUE)
    ELSE Reverse(stable_sort(v, sort_index, TRUE))

\* rows.sort_by(..): slice::sort_by is a stable sort.
rows_sort_by(v, sort_index, ascending) ==
    stable_sort(v, sort_index, ascending)

\* ------------------------------------------------------------ query inputs
\* Rows of the table.
MaxRows == 2
\* Filters on the command line.
MaxFilters == 1

\* A video file: 1536 bytes, one hour, 30 fps, 3.5 Mbps.
RowVideoA ==
    <<<<"a", ".", "m", "p", "4">>,
      <<"1", ".", "5", "0", " ", "K", "B">>,
      <<"0", "1", ":", "0", "0", ":", "0", "0">>,
      <<"3", "0", ".", "0", "0">>,
      <<"3", ".", "5", "0", " ", "M", "b", "p", "s">>,
      <<"1", "9", "2", "0", "x", "1", "0", "8", "0">>,
      <<"h", "2", "6", "4">>,
      <<"H", "i", "g", "h">>,
      <<"8", "b", "i", "t">>,
      <<"2", "C", "H", " ", "1", "2", "8", "k">>>>

\* A video file: 2 MiB, two hours, 23.98 fps, 7.2 Mbps.
RowVideoB ==
    <<<<"B", ".", "M", "K", "V">>,
      <<"2", ".", "0", "0", " ", "M", "B">>,
      <<"0", "2", ":", "0", "0", ":", "0", "0">>,
      <<"2", "3", ".", "9", "8">>,
      <<"7", ".", "2", "0", " ", "M", "b", "p", "s">>,
      <<"1", "2", "8", "0", "x", "7", "2", "0">>,
      <<"h", "e", "v", "c">>,
      <<"M", "a", "i", "n", " ", "1", "0">>,
      <<"1", "0", "b", "i", "t">>,
      <<"2", "C", "H", " ", "1", "2", "8", "k">>>>

\* An audio file: 512 bytes, 59 minutes 30 seconds, no video stream.
RowAudio ==
    <<<<"c", ".", "m", "p", "3">>,
      <<"5", "1", "2", " ", "B">>,
      <<"5", "9", ":", "3", "0">>,
      <<>>,
      <<>>,
      <<>>,
      <<>>,
      <<>>,
      <<>>,
      <<"2", "C", "H", " ", "1", "2", "8", "k">>>>

RowSet == {RowVideoA, RowVideoB, RowAudio}

\* Filters of the right shape, and two of a wrong one.
FilterSet ==
    {<<"b", "i", "t", "r", "a", "t", "e", ":", ">", ":", "5">>,
     <<"d", "u", "r", "a", "t", "i", "o", "n", ":", ">", ":", "1", "h", "3", "0", "m">>,
     <<"f", "i", "l", "e", "n", "a", "m", "e", ":", "M", "P">>,
     <<"f", "i", "l", "e", "n", "a", "m", "e", ":", ".", "m", "k", "v">>,
     <<"b", "i", "t", "r", "a", "t", "e">>,
     <<"c", "o", "d", "e", "c", ":", ">", ":", "1">>}

\* Filter strings with the wrong number of parts, an unknown column or an
\* unknown operator.
MalformedFilters ==
    {<<>>,
     <<"b", "i", "t", "r", "a", "t", "e">>,
     <<"f", "i", "l", "e", "n", "a", "m", "e">>,
     <<"s", "i", "z", "e", ":", ">">>,
     <<"b", "o", "g", "u", "s", ":", "x">>,
     <<"c", "o", "d", "e", "c", ":", ">", ":", "1">>,
     <<"b", "i", "t", "r", "a", "t", "e", ":", "=", ":", "5">>,
     <<"f", "i", "l", "e", "n", "a", "m", "e", ":", ">", ":", "a">>,
     <<"b", "i", "t", "r", "a", "t", "e", ":", ">", ":", "5", ":", "x">>}

\* ---------------------------------------------------- the table: filter, sort
\* The rows main keeps: each file's FieldRow that passes the filters, with the
\* position of the file it was built from.
filtered_rows(table, filters) ==
    LET tagged == [i \in 1..Len(table) |-> [fields |-> table[i], src |-> i]]
    IN SelectSeq(tagged,
                 LAMBDA r : filters = <<>>
                            \/ should_include_row(r.fields, filters))

\* The query layer on its own: main from the FieldRows on, for every table,
\* filter list, sort column and direction within the bounds.  The cache is
\* left as it was loaded.
InitQuery ==
    /\ fs = [f \in Files |-> BaseState]
    /\ mods = 0
    /\ disk = [kind |-> "absent", entries |-> EmptyEntries]
    /\ CACHE = CacheNone
    /\ cached = FALSE
    /\ media_files = <<>>
    /\ idx = 1
    /\ pc = "table"
    /\ probe = NoProbe
    /\ ret = Err
    /\ processed_files = <<>>
    /\ invoked = FALSE
    /\ lk = NoLookup
    /\ last = [f \in Files |-> NoLast]
    /\ outcomes = <<>>
    /\ lastLoad = NoLoad
    /\ table_in \in SeqsUpTo(RowSet, MaxRows)
    /\ args_filter \in SeqsUpTo(FilterSet, MaxFilters)
    /\ args_sort \in {SortColumns[i] : i \in 1..Len(SortColumns)}
    /\ args_direction \in {"asc", "desc"}
    /\ rows = <<>>
    /\ qpc = "rows"
    /\ file_name = <<>>
    /\ filename_length = 0
    /\ overflow_checks = FALSE
    /\ probe_in = <<>>
    /\ row_out = <<>>
    /\ fpc = "off"

\* main: "Create rows for table", the loop that drops the filtered rows.
FilterRows ==
    /\ qpc = "rows"
    /\ rows' = filtered_rows(table_in, args_filter)
    /\ qpc' = "sort"
    /\ UNCHANGED <<table_in, args_filter, args_sort, args_direction>>
    /\ UNCHANGED <<cacheVars, formatVars>>

\* main: "Sort rows".
SortRows ==
    /\ qpc = "sort"
    /\ rows' = rows_sort_by(rows, sort_index_of(args_sort),
                             args_direction = "asc")
    /\ qpc' = "print"
    /\ UNCHANGED <<table_in, args_filter, args_sort, args_direction>>
    /\ UNCHANGED <<cacheVars, formatVars>>

NextQuery ==
    \/ FilterRows
    \/ SortRows

SpecQuery == InitQuery /\ [][NextQuery]_vars

\* ------------------------------------------------- the FieldRow of a record
\* Option<T>
None == [some |-> FALSE, val |-> <<>>]

Some(v) == [some |-> TRUE, val |-> v]

\* Option::unwrap_or(d)
unwrap_or(o, d) == IF o.some THEN o.val ELSE d

RECURSIVE to_string(_)
\* format!("{}", n) of an unsigned integer.
to_string(n) ==
    IF n < 10 THEN <<DigitChars[n + 1]>>
    ELSE Append(to_string(n \div 10), DigitChars[(n % 10) + 1])

\* format!("{:02}", n)
pad2(n) == IF n < 10 THEN <<"0">> \o to_string(n) ELSE to_string(n)

\* a / b rounded to the nearest integer, a tie to the even one, for a >= 0.
round_div(a, b) ==
    LET q == a \div b
        r == a % b
    IN IF 2 * r > b \/ (2 * r = b /\ q % 2 = 1) THEN q + 1 ELSE q

\* format!("{:.2}", x) of the number x >= 0 with h hundredths.
fixed2(h) == to_string(h \div 100) \o <<".">> \o pad2(h % 100)

\* str::parse::<u64>(): an optional '+' and at least one digit.
parse_u64(s) ==
    LET body == IF s # <<>> /\ s[1] = "+" THEN Tail(s) ELSE s
    IN IF body = <<>> \/ ~all_digits(body) THEN [ok |-> FALSE, val |-> 0]
       ELSE [ok |-> TRUE, val |-> digits_value(body)]

KB == 1024

MB == KB * 1024

GB == MB * 1024

\* format_size: "<x.xx> GB|MB|KB" or "<n> B"; empty when size is no u64.
format_size(size) ==
    LET bytes == parse_u64(size).val
    IN IF ~parse_u64(size).ok THEN <<>>
       ELSE IF bytes >= GB
       THEN fixed2(round_div(bytes * 100, GB)) \o <<" ", "G", "B">>
       ELSE IF bytes >= MB
       THEN fixed2(round_div(bytes * 100, MB)) \o <<" ", "M", "B">>
       ELSE IF bytes >= KB
       THEN fixed2(round_div(bytes * 100, KB)) \o <<" ", "K", "B">>
       ELSE to_string(bytes) \o <<" ", "B">>

\* format_duration: HH:MM:SS when there is a whole hour, else MM:SS; empty
\* when duration is no f64.  `as u32` drops the fraction and turns a negative
\* number into 0.
format_duration(duration) ==
    LET secs == parse_f64(duration).val
        hours == secs \div 360000
        minutes == (secs % 360000) \div 6000
        seconds == (secs % 6000) \div 100
    IN IF ~parse_f64(duration).ok THEN <<>>
       ELSE IF secs < 0 THEN <<"0", "0", ":", "0", "0">>
       ELSE IF hours > 0
       THEN pad2(hours) \o <<":">> \o pad2(minutes) \o <<":">> \o pad2(seconds)
       ELSE pad2(minutes) \o <<":">> \o pad2(seconds)

\* get_bit_depth
get_bit_depth(pix_fmt) ==
    IF pix_fmt.some /\ contains(pix_fmt.val, <<"p", "1", "0">>)
    THEN <<"1", "0", "b", "i", "t">>
    ELSE IF pix_fmt.some /\ contains(pix_fmt.val, <<"p", "1", "2">>)
    THEN <<"1", "2", "b", "i", "t">>
    ELSE <<"8", "b", "i", "t">>

\* usize::MAX / 2 on a target with 32-bit pointers.  On a 64-bit target the
\* number is larger; what truncate_middle does with it is the same.
UsizeMaxHalf == 2147483647

\* truncate_middle(s, max_len).  max_len - ellipsis.len() is a subtraction of
\* usize: below zero it panics in a build with overflow checks and wraps
\* around in one without.
truncate_middle(s, max_len) ==
    IF Len(s) <= max_len THEN [panicked |-> FALSE, val |-> s]
    ELSE LET diff == max_len - 3
         IN IF diff < 0 /\ overflow_checks
            THEN [panicked |-> TRUE, val |-> <<>>]
            ELSE LET side_len == IF diff < 0
                                 THEN UsizeMaxHalf + (1 + (diff \div 2))
                                 ELSE diff \div 2
                     take == IF side_len > Len(s) THEN Len(s) ELSE side_len
                     left == SubSeq(s, 1, take)
                     right == SubSeq(s, Len(s) - take + 1, Len(s))
                 IN [panicked |-> FALSE,
                     val |-> left \o <<".", ".", ".">> \o right]

RECURSIVE find_last(_, _)
\* The same search from the end of the list.
find_last(streams, codec_type) ==
    IF streams = <<>> THEN None
    ELSE IF streams[Len(streams)].codec_type = codec_type
    THEN Some(streams[Len(streams)])
    ELSE find_last(SubSeq(streams, 1, Len(streams) - 1), codec_type)

RECURSIVE find(_, _)
\* probe.streams.iter().find(|s| s.codec_type == codec_type)
find(streams, codec_type) ==
    IF streams = <<>> THEN None
    ELSE IF Head(streams).codec_type = codec_type THEN Some(Head(streams))
    ELSE find(Tail(streams), codec_type)

\* The fps field: r_frame_rate "num/den" as num / den with two decimals.
fps_field(r_frame_rate) ==
    IF ~r_frame_rate.some THEN <<>>
    ELSE LET parts == split(r_frame_rate.val, "/")
             num == parse_f64(parts[1])
             den == parse_f64(parts[2])
         IN IF Len(parts) # 2 THEN <<>>
            ELSE IF ~num.ok \/ ~den.ok THEN <<>>
            ELSE IF den.val # 0 THEN fixed2(round_div(num.val * 100, den.val))
            ELSE <<>>

\* The bitrate field: the format's bit_rate in Mbps with two decimals.
bitrate_field(bit_rate) ==
    IF bit_rate.some /\ parse_f64(bit_rate.val).ok
    THEN fixed2(round_div(parse_f64(bit_rate.val).val, 1000000)) \o <<" ", "M", "b", "p", "s">>
    ELSE <<>>

\* The six fields of the video stream.
video_fields(video, format) ==
    <<fps_field(video.r_frame_rate),
      bitrate_field(format.bit_rate),
      to_string(unwrap_or(video.width, 0)) \o <<"x">>
          \o to_string(unwrap_or(video.height, 0)),
      unwrap_or(video.codec_name, <<>>),
      unwrap_or(video.profile, <<>>),
      get_bit_depth(video.pix_fmt)>>

\* The audio summary: "<channels>CH" and the bit rate in kbps when it parses.
audio_field(audio) ==
    to_string(unwrap_or(audio.channels, 0)) \o <<"C", "H">>
        \o (IF audio.bit_rate.some /\ parse_f64(audio.bit_rate.val).ok
            THEN <<" ">>
                 \o to_string(round_div(parse_f64(audio.bit_rate.val).val,
                                        100000))
                 \o <<"k">>
            ELSE <<>>)

\* format_probe_output(file, probe, filename_length): the ten fields, or the
\* panic of truncate_middle.  name is file.file_name() as a string, None when
\* the path has none or it is not UTF-8.
format_probe_output(name, probe_data, max_len) ==
    LET shown == truncate_middle(unwrap_or(name, <<"U", "n", "k", "n", "o", "w", "n">>), max_len)
        video == find(probe_data.streams, "video")
        audio == find(probe_data.streams, "audio")
    IN [panicked |-> shown.panicked,
        fields |->
            <<shown.val,
              format_size(probe_data.format.size),
              format_duration(probe_data.format.duration)>>
            \o (IF video.some THEN video_fields(video.val, probe_data.format)
                ELSE [i \in 1..6 |-> <<>>])
            \o <<IF audio.some THEN audio_field(audio.val) ELSE <<>> >>]

\* ---------------------------------------------------- records and file names
\* Longest file name, in characters.
MaxName == 7
\* Largest --filename-length.
MaxLength == 7
\* Most streams in one record.
MaxStreams == 2

LongName == <<"t", "r", "i", "p", "_", "2", "0", "1", "9", ".", "m", "k", "v">>

\* The file names: the endings of LongName, and a path without a name.
FileNames ==
    {None} \cup
    {Some(SubSeq(LongName, Len(LongName) - n + 1, Len(LongName))) :
        n \in 1..(IF MaxName < Len(LongName) THEN MaxName ELSE Len(LongName))}

StreamVideoA ==
    [codec_type |-> "video", codec_name |-> Some(<<"h", "2", "6", "4">>),
     profile |-> Some(<<"H", "i", "g", "h">>), width |-> Some(1920), height |-> Some(1080),
     r_frame_rate |-> Some(<<"3", "0", "/", "1">>),
     bit_rate |-> Some(<<"3", "4", "0", "0", "0", "0", "0">>),
     pix_fmt |-> Some(<<"y", "u", "v", "4", "2", "0", "p">>), channels |-> None]

StreamVideoB ==
    [codec_type |-> "video", codec_name |-> Some(<<"h", "e", "v", "c">>),
     profile |-> Some(<<"M", "a", "i", "n", " ", "1", "0">>),
     width |-> Some(1280), height |-> Some(720),
     r_frame_rate |-> Some(<<"2", "4", "0", "0", "0", "/", "1", "0", "0", "1">>), bit_rate |-> None,
     pix_fmt |-> Some(<<"y", "u", "v", "4", "2", "0", "p", "1", "0", "l", "e">>), channels |-> None]

StreamAudioA ==
    [codec_type |-> "audio", codec_name |-> Some(<<"a", "a", "c">>),
     profile |-> Some(<<"L", "C">>), width |-> None, height |-> None,
     r_frame_rate |-> Some(<<"0", "/", "0">>), bit_rate |-> Some(<<"1", "2", "8", "0", "0", "0">>),
     pix_fmt |-> None, channels |-> Some(2)]

StreamAudioB ==
    [codec_type |-> "audio", codec_name |-> Some(<<"a", "c", "3">>),
     profile |-> None, width |-> None, height |-> None,
     r_frame_rate |-> Some(<<"0", "/", "0">>), bit_rate |-> None,
     pix_fmt |-> None, channels |-> Some(6)]

StreamSubtitle ==
    [codec_type |-> "subtitle", codec_name |-> Some(<<"s", "u", "b", "r", "i", "p">>),
     profile |-> None, width |-> None, height |-> None,
     r_frame_rate |-> Some(<<"0", "/", "0">>), bit_rate |-> None,
     pix_fmt |-> None, channels |-> None]

StreamSet ==
    {StreamVideoA, StreamVideoB, StreamAudioA, StreamAudioB, StreamSubtitle}

\* Format sections as the prober writes them: size and duration are numbers.
FormatSet ==
    {[size |-> <<"1", "5", "3", "6">>,
      duration |-> <<"3", "6", "0", "0", ".", "0", "0">>,
      bit_rate |-> Some(<<"3", "5", "0", "0", "0", "0", "0">>)],
     [size |-> <<"5", "1", "2">>,
      duration |-> <<"3", "5", "7", "0", ".", "5", "0">>,
      bit_rate |-> None]}

\* The records format_probe_output is given.
ProbeSet ==
    [streams : SeqsUpTo(StreamSet, MaxStreams), format : FormatSet]

\* format_probe_output on its own: one call for every record, file name,
\* --filename-length and build within the bounds.
InitFormat ==
    /\ fs = [f \in Files |-> BaseState]
    /\ mods = 0
    /\ disk = [kind |-> "absent", entries |-> EmptyEntries]
    /\ CACHE = CacheNone
    /\ cached = FALSE
    /\ media_files = <<>>
    /\ idx = 1
    /\ pc = "table"
    /\ probe = NoProbe
    /\ ret = Err
    /\ processed_files = <<>>
    /\ invoked = FALSE
    /\ lk = NoLookup
    /\ last = [f \in Files |-> NoLast]
    /\ outcomes = <<>>
    /\ lastLoad = NoLoad
    /\ table_in = <<>>
    /\ args_filter = <<>>
    /\ args_sort = "bitrate"
    /\ args_direction = "desc"
    /\ rows = <<>>
    /\ qpc = "off"
    /\ file_name \in FileNames
    /\ filename_length \in 0..MaxLength
    /\ overflow_checks \in BOOLEAN
    /\ probe_in \in ProbeSet
    /\ row_out = <<>>
    /\ fpc = "call"

\* main: let fields = format_probe_output(&file, &probe, filename_length)?
FormatReturns ==
    /\ fpc = "call"
    /\ LET r == format_probe_output(file_name, probe_in, filename_length)
       IN /\ ~r.panicked
          /\ row_out' = r.fields
    /\ fpc' = "done"
    /\ UNCHANGED <<file_name, filename_length, overflow_checks, probe_in>>
    /\ UNCHANGED <<cacheVars, queryVars>>

\* The call unwinds from the overflow in truncate_middle.
FormatPanics ==
    /\ fpc = "call"
    /\ format_probe_output(file_name, probe_in, filename_length).panicked
    /\ fpc' = "panic"
    /\ UNCHANGED <<file_name, filename_length, overflow_checks, probe_in,
                   row_out>>
    /\ UNCHANGED <<cacheVars, queryVars>>

NextFormat ==
    \/ FormatReturns
    \/ FormatPanics

SpecFormat == InitFormat /\ [][NextFormat]_vars


\* ------------------------------------------------- claims: cache, acquisition
\* C1: when process_file runs on a file whose previous run in this process
\* returned a record, and the file's size and modification time are what they
\* were then, the run does not invoke the external prober and returns an equal
\* record.
C1_UnchangedFileIsServedFromCache ==
    (pc = "ret" /\ lk.rel = "same") => (~invoked /\ ret = Ok(lk.expect))

\* The second run on a file the first run probed into a cache loaded empty.
C1_Witness ==
    /\ pc = "ret"
    /\ lk.rel = "same"
    /\ lk.hit
    /\ ~invoked
    /\ lastLoad.ok
    /\ lastLoad.empty
    /\ ret = Ok(lk.expect)

\* C2 as stated: when the file's size or modification time differs from what
\* the previous run that returned a record saw, the lookup returns nothing and
\* the prober is invoked again; and a lookup returns a record only when an entry
\* exists whose signature equals the file's current one.
C2_AnyChangeMisses ==
    /\ lk.rel \in {"subsecond", "changed"} =>
           (~lk.hit /\ (pc = "ret" => invoked))
    /\ lk.hit => lk.match

\* C2 amended: the same with the modification time taken in whole seconds, as
\* the signature keeps it: a change of the size, of the whole second of the
\* modification time, or the removal of the file makes the lookup return nothing
\* and the run invoke the prober again; a lookup returns a record only when an
\* entry exists whose signature equals the file's current one.
C2_SignatureChangeMisses ==
    /\ lk.rel = "changed" => (~lk.hit /\ (pc = "ret" => invoked))
    /\ lk.hit => lk.match

\* A changed file probed again, successfully.
C2_Witness ==
    /\ pc = "ret"
    /\ lk.rel = "changed"
    /\ fs[cur].exists
    /\ invoked
    /\ ret.tag = "Ok"

\* C3: a cache hit never returns a record probed from a state of the file whose
\* size or modification time (in the signature's whole seconds) differs from
\* the current one, whatever external writes interleave with the steps.
C3_HitIsNeverStale ==
    (pc = "ret" /\ lk.hit) =>
        (fs[cur].exists /\ SignatureOf(ret.val) = SignatureOf(fs[cur]))

\* C4: when the prober succeeded and its output parsed, process_file returns
\* the probed record, whether or not the store into the cache succeeded.
C4_StoreIsBestEffort ==
    (pc = "ret" /\ probe # NoProbe) => ret = Ok(probe)

RECURSIVE Collected(_, _)
\* The (file, record) pairs of the calls that returned Ok, in call order.
Collected(files, outs) ==
    IF outs = <<>> THEN <<>>
    ELSE LET n == Len(outs)
             before == Collected(files, SubSeq(outs, 1, n - 1))
         IN IF outs[n].tag = "Ok"
            THEN Append(before, <<files[n], outs[n].val>>)
            ELSE before

\* C5: without --cached the run never aborts on a failed file: the loop calls
\* process_file once per discovered file, in order, it is over only when every
\* file has had its call, and the result set holds exactly the records of the
\* calls that succeeded, in discovery order.
C5_FailuresDoNotAbort ==
    ~cached =>
        /\ pc # "fatal"
        /\ Len(outcomes) = idx - 1
        /\ pc \in {"table", "exit"} => Len(outcomes) = Len(media_files)
        /\ processed_files = Collected(media_files, outcomes)

\* A run whose first file failed and whose second file gave its record.
C5_Witness ==
    /\ pc = "table"
    /\ Len(outcomes) = 2
    /\ outcomes[1].tag = "Err"
    /\ outcomes[2].tag = "Ok"
    /\ processed_files = <<(<<media_files[2], outcomes[2].val>>)>>

\* C10: a load that finds cache.json absent or unparseable returns no error
\* and leaves an empty in-memory cache, on the lookup, store and listing paths;
\* a lookup that did it ends as a miss.
C10_AbsentOrCorruptLoadsEmpty ==
    lastLoad.kind \in {"absent", "corrupt"} =>
        /\ lastLoad.ok
        /\ lastLoad.empty
        /\ CACHE.loaded
        /\ lastLoad.path = "lookup" => lastLoad.res = "None"

\* The first lookup found an unparseable cache.json and went on to the prober.
C10_Witness ==
    /\ lastLoad.path = "lookup"
    /\ lastLoad.kind = "corrupt"
    /\ pc = "probe"
    /\ CACHE = [loaded |-> TRUE, entries |-> EmptyEntries]

\* ---------------------------------------------------- claims: filter and sort
\* The source positions of the rows of the table, as a set.
KeptSources == {rows[i].src : i \in 1..Len(rows)}

\* <column>:<op>:<value> with a numeric column and one of the two operators.
WellFormedTyped(f) ==
    LET parts == split(f, ":")
    IN /\ Len(parts) = 3
       /\ parts[1] \in {ColSize, ColDuration, ColFps, ColBitrate}
       /\ parts[2] \in {<<">">>, <<"<">>}

\* filename:<substring>, or a well-formed typed filter.
WellFormed(f) ==
    LET parts == split(f, ":")
    IN (Len(parts) = 2 /\ parts[1] = ColFilename) \/ WellFormedTyped(f)

\* The list with f put in after its first p filters.
InsertAt(filters, p, f) ==
    SubSeq(filters, 1, p) \o <<f>> \o SubSeq(filters, p + 1, Len(filters))

\* C6: under one well-formed typed filter the table keeps exactly the rows
\* whose reverse-parsed field stands in the filter's relation to its threshold.
C6_TypedFilterKeepsByRelation ==
    (qpc \in {"sort", "print"} /\ Len(args_filter) = 1
     /\ WellFormedTyped(args_filter[1])) =>
        KeptSources =
            {i \in 1..Len(table_in) :
                typed_filter(table_in[i], split(args_filter[1], ":"))}

\* C7: after the filter step the table keeps exactly the rows that the
\* well-formed filters of the list retain, whatever malformed filters the
\* list also holds; and putting a malformed filter anywhere into the list
\* removes no row the list retains.
C7_MalformedFilterRemovesNothing ==
    qpc = "sort" =>
        \A i \in 1..Len(table_in) :
            /\ (i \in KeptSources) =
                   should_include_row(table_in[i],
                                      SelectSeq(args_filter, WellFormed))
            /\ should_include_row(table_in[i], args_filter) =>
                   \A bad \in MalformedFilters, p \in 0..Len(args_filter) :
                       should_include_row(table_in[i],
                                          InsertAt(args_filter, p, bad))

\* A malformed filter on the command line, and every row of a table kept.
C7_Witness ==
    /\ qpc = "sort"
    /\ Len(table_in) = MaxRows
    /\ Len(args_filter) >= 1
    /\ ~WellFormed(args_filter[Len(args_filter)])
    /\ KeptSources = 1..Len(table_in)

\* The rows before the sort.
Presort == filtered_rows(table_in, args_filter)

SortIndex == sort_index_of(args_sort)

Ascending == args_direction = "asc"

\* Rows that compare Equal keep their order from before the sort.
StableOrder ==
    \A i \in 1..Len(rows), j \in 1..Len(rows) :
        (i < j /\ compare_rows(rows[i].fields, rows[j].fields, SortIndex,
                               Ascending) = 0)
            => rows[i].src < rows[j].src

\* The rows are those from before the sort, in the comparator's order.
SortedOrder ==
    /\ Len(rows) = Len(Presort)
    /\ KeptSources = {Presort[i].src : i \in 1..Len(Presort)}
    /\ \A i \in 1..Len(rows) : rows[i].fields = table_in[rows[i].src]
    /\ \A i \in 1..Len(rows), j \in 1..Len(rows) :
           i < j => compare_rows(rows[i].fields, rows[j].fields, SortIndex,
                                 Ascending) <= 0

\* No two rows compare Equal on the sort column.
DistinctKeys ==
    \A i \in 1..Len(rows), j \in 1..Len(rows) :
        i # j => compare_rows(rows[i].fields, rows[j].fields, SortIndex,
                              Ascending) # 0

\* The sorted output for the other direction, reversed.
OtherDirectionReversed ==
    Reverse(rows_sort_by(Presort, SortIndex, ~Ascending))

\* C8 as stated: the sort is stable, and the output for one direction is the
\* exact reverse of the output for the other on the same input.
C8_StableAndExactReverse ==
    qpc = "print" => (StableOrder /\ rows = OtherDirectionReversed)

\* C8 amended: the sort is stable in both directions, and the output for one
\* direction is the exact reverse of the output for the other when no two rows
\* compare Equal on the sort column.
C8_StableAndReverseOnDistinctKeys ==
    qpc = "print" =>
        /\ StableOrder
        /\ SortedOrder
        /\ DistinctKeys => rows = OtherDirectionReversed

\* Two rows with equal keys sorted descending, which come out in their order
\* from before the sort, not reversed.
C8_Witness ==
    /\ qpc = "print"
    /\ args_direction = "desc"
    /\ Len(rows) = 2
    /\ rows[1].fields # rows[2].fields
    /\ compare_rows(rows[1].fields, rows[2].fields, SortIndex, Ascending) = 0
    /\ rows[1].src < rows[2].src
    /\ rows # OtherDirectionReversed

\* The number a numeric column's display string denotes.
TypedKey(fields, sort_index) ==
    IF sort_index = 1 THEN 100 * parse_size(fields[2])
    ELSE IF sort_index = 2 THEN parse_duration_to_secs(fields[3])
    ELSE IF sort_index = 3 THEN unwrap_or_zero(parse_f64(fields[4]))
    ELSE unwrap_or_zero(parse_bitrate(fields[5]))

\* C9: an ascending sort by size, duration, fps or bitrate leaves the rows in
\* the order of the numbers their fields denote: bytes, seconds, frames per
\* second, Mbps.
C9_NumericColumnsSortByValue ==
    (qpc = "print" /\ SortIndex \in 1..4 /\ Ascending) =>
        \A i \in 1..Len(rows), j \in 1..Len(rows) :
            i < j => TypedKey(rows[i].fields, SortIndex)
                         <= TypedKey(rows[j].fields, SortIndex)

\* ------------------------------------------------------ claims: the FieldRow
\* The positions of the streams of a type in the record, in prober order.
StreamsOfType(codec_type) ==
    {i \in 1..Len(probe_in.streams) :
        probe_in.streams[i].codec_type = codec_type}

\* The first stream of a type in prober order.
FirstOfType(codec_type) ==
    probe_in.streams[CHOOSE i \in StreamsOfType(codec_type) :
                         \A j \in StreamsOfType(codec_type) : i <= j]

\* The record with, of each of the two types, only its first stream.
FirstStreamsOnly ==
    [streams |->
         (IF StreamsOfType("video") = {} THEN <<>>
          ELSE <<FirstOfType("video")>>)
         \o (IF StreamsOfType("audio") = {} THEN <<>>
             ELSE <<FirstOfType("audio")>>),
     format |-> probe_in.format]

\* C11: a call of format_probe_output that returns yields exactly ten fields;
\* size and duration are filled from the format section whatever the streams
\* are; without a video stream the fields fps, bitrate, resolution, codec,
\* profile and bit depth are empty, without an audio stream the audio summary
\* is empty; and the fields are those of the first video and the first audio
\* stream in prober order.
C11_TenFieldsFromFirstStreams ==
    fpc = "done" =>
        /\ Len(row_out) = 10
        /\ row_out[2] = format_size(probe_in.format.size)
        /\ row_out[3] = format_duration(probe_in.format.duration)
        /\ row_out[2] # <<>> /\ row_out[3] # <<>>
        /\ StreamsOfType("video") = {} =>
               \A i \in 4..9 : row_out[i] = <<>>
        /\ StreamsOfType("audio") = {} => row_out[10] = <<>>
        /\ StreamsOfType("video") # {} =>
               /\ row_out[7] = unwrap_or(FirstOfType("video").codec_name, <<>>)
               /\ row_out[8] = unwrap_or(FirstOfType("video").profile, <<>>)
               /\ row_out[4] = fps_field(FirstOfType("video").r_frame_rate)
        /\ StreamsOfType("audio") # {} =>
               row_out[10] = audio_field(FirstOfType("audio"))
        /\ row_out = format_probe_output(file_name, FirstStreamsOnly,
                                         filename_length).fields

\* A record with two audio streams and no video stream: six empty fields
\* between the duration and the summary of the first audio stream.
C11_Witness ==
    /\ fpc = "done"
    /\ Len(probe_in.streams) = 2
    /\ probe_in.streams[1] = StreamAudioA
    /\ probe_in.streams[2] = StreamAudioB
    /\ Tail(row_out) = Tail(RowAudio)

\* The name the call shows.
ShownName == unwrap_or(file_name, <<"U", "n", "k", "n", "o", "w", "n">>)

\* C12: the call never faults; a name of at most filename_length characters is
\* shown unchanged; a longer one is shown as a prefix, "..." and a suffix of
\* it, filename_length characters in all, the prefix as long as the suffix
\* when filename_length - 3 is even and one character longer when it is odd.
C12_TruncateKeepsLengthAndHalves ==
    fpc # "call" =>
        /\ fpc = "done"
        /\ LET n == Len(ShownName)
               L == filename_length
               suffix_len == (L - 3) \div 2
               prefix_len == (L - 3) - suffix_len
           IN IF n <= L THEN row_out[1] = ShownName
              ELSE /\ L >= 3
                   /\ Len(row_out[1]) = L
                   /\ row_out[1] =
                          SubSeq(ShownName, 1, prefix_len)
                          \o <<".", ".", ".">>
                          \o SubSeq(ShownName, n - suffix_len + 1, n)


\* ------------------------------------------- claims: the cache and its file
\* The mapping a call works on: the one CACHE holds, or the one a load reads.
MappingBefore ==
    IF CACHE.loaded THEN CACHE.entries ELSE from_str_or_empty(disk)

\* A step in which save_to_cache returns Ok.
StoreReturnsOk == pc = "store" /\ pc' = "ret" /\ ret'.tag = "Ok"

\* C13: after a store that returns success cache.json holds exactly the
\* in-memory mapping, which is the mapping from before the store with the
\* stored identity's entry replaced by the new signature and record and every
\* other identity's entry as it was; no other step of the process writes the
\* file.
C13_StoreWritesWholeMapping ==
    [][/\ StoreReturnsOk =>
              /\ CACHE'.loaded
              /\ disk' = [kind |-> "valid", entries |-> CACHE'.entries]
              /\ \A g \in Files :
                     CACHE'.entries[g] =
                         IF g = cur
                         THEN CacheEntry(SignatureOf(fs[cur]), probe)
                         ELSE MappingBefore[g]
       /\ disk' # disk => pc = "store"]_vars

\* A successful store of a new record for one file while the mapping holds an
\* entry of the other: the file holds both.
C13_Witness ==
    /\ pc = "ret"
    /\ invoked
    /\ ret = Ok(probe)
    /\ probe # FFProbeOutput(BaseState)
    /\ disk = [kind |-> "valid", entries |-> CACHE.entries]
    /\ disk.entries[cur] = CacheEntry(SignatureOf(fs[cur]), probe)
    /\ \E g \in Files \ {cur} : disk.entries[g] = EntryFor(BaseState)

\* C14: cache.json is read only while CACHE holds None; once CACHE holds a
\* mapping it holds one for the rest of the process, and no call replaces the
\* mapping: the only change to it is a store's insert of one entry.
C14_SingleInitialization ==
    [][/\ lastLoad' # lastLoad => ~CACHE.loaded
       /\ CACHE.loaded => CACHE'.loaded
       /\ (CACHE.loaded /\ CACHE'.entries # CACHE.entries) =>
              /\ pc = "store"
              /\ \A g \in Files \ {cur} :
                     CACHE'.entries[g] = CACHE.entries[g]
       /\ (~CACHE.loaded /\ CACHE'.loaded) =>
              \A g \in Files :
                  (pc = "store" /\ g = cur)
                  \/ CACHE'.entries[g] = from_str_or_empty(disk)[g]]_vars

\* The lookup for the second file finds CACHE set by the first file's calls,
\* holding an entry the file on disk has lost to a failed write.
C14_Witness ==
    /\ pc = "lookup"
    /\ idx = 2
    /\ CACHE.loaded
    /\ lastLoad.ok
    /\ disk.kind = "corrupt"
    /\ CACHE.entries # EmptyEntries


====
